---------------------------- MODULE Spec2Model ----------------------------
(***************************************************************************)
(* A model of the carbonandcardboard.com site generators:                  *)
(*   src/format_transcript.py  (transcript -> HTML converter)              *)
(*   src/episode_index.py      (episode catalog -> index pages)            *)
(*                                                                         *)
(* Python strings are modelled as sequences of one-character strings, so   *)
(* that the regular expressions, strip(), split() and replace() of the     *)
(* source are computed character by character.  A Python value that may be *)
(* None is a sequence of length 0 (None) or 1 (the value).                 *)
(***************************************************************************)
EXTENDS Integers, Sequences, FiniteSets

VARIABLES
    pc,                 \* position of the running function / program
    line,               \* SpecMatch: the line handed to speaker_pattern.match
    match,              \* SpecMatch: the result of speaker_pattern.match
    lines,              \* parse_transcript: the lines read from the file
    pos,                \* parse_transcript: number of lines consumed by the for loop
    sections,           \* parse_transcript / get_speaker_mapping: the section list
    current_speaker,    \* parse_transcript: None or the active speaker
    current_timestamp,  \* parse_transcript: None or the active timestamp
    current_text,       \* parse_transcript: the buffered lines
    unique_speakers,    \* get_speaker_mapping: speakers in first-seen order
    speaker_mapping,    \* get_speaker_mapping: speaker -> class number
    text,               \* generate_html: one section's text
    paragraphs,         \* generate_html: the <p> bodies emitted for text
    prog,               \* SpecCli: which script runs
    argv,               \* SpecCli: sys.argv[1:] of format_transcript.py
    files,              \* SpecCli: the file system, path -> content
    episodes,           \* SpecCli: the episode list inside episode_index.main
    exit_status         \* SpecCli: None while running, then the exit status

vars == <<pc, line, match, lines, pos, sections, current_speaker,
          current_timestamp, current_text, unique_speakers, speaker_mapping,
          text, paragraphs, prog, argv, files, episodes, exit_status>>

matchVars == <<line, match>>
parseVars == <<lines, pos, sections, current_speaker, current_timestamp, current_text>>
mappingVars == <<unique_speakers, speaker_mapping>>
paraVars == <<text, paragraphs>>
cliVars == <<prog, argv, files, episodes, exit_status>>

-----------------------------------------------------------------------------
(* Optional values and generic sequence helpers                            *)

None == <<>>

Some(v) == <<v>>

Min(S) == CHOOSE x \in S : \A y \in S : x <= y

Max(S) == CHOOSE x \in S : \A y \in S : x >= y

Prefix(s, k) == SubSeq(s, 1, k)

Suffix(s, k) == SubSeq(s, k + 1, Len(s))

IsPrefixOf(s, t) == Len(s) <= Len(t) /\ SubSeq(t, 1, Len(s)) = s

RECURSIVE Flatten(_)
Flatten(ss) == IF ss = <<>> THEN <<>> ELSE Head(ss) \o Flatten(Tail(ss))

-----------------------------------------------------------------------------
(* Character classes of Python's re and str                                *)

\* \s of a str pattern and the characters str.strip() removes (ASCII part).
Whitespace == {" ", "\t", "\n", "\r", "\f"}

IsSpace(c) == c \in Whitespace

Digits == {"0", "1", "2", "3", "4", "5", "6", "7", "8", "9"}

IsDigit(c) == c \in Digits

\* Number of consecutive characters of s, from position i on, that are in C.
RECURSIVE Span(_, _, _)
Span(s, i, C) ==
    IF i > Len(s) \/ s[i] \notin C THEN 0 ELSE 1 + Span(s, i + 1, C)

-----------------------------------------------------------------------------
(* speaker_pattern = re.compile(r'^(.+?)\s+\((\d+:\d+)\)\s*$')             *)

\* r'\s+\((\d+:\d+)\)\s*$' matched against the whole of s: the position of
\* the opening parenthesis and of the closing one, or None.  Each greedy run
\* is followed by a character outside its class, so no backtracking inside
\* the tail can produce another match.
HeaderTail(s) ==
    LET ws == Span(s, 1, Whitespace)
        open == ws + 1
        d1 == Span(s, open + 1, Digits)
        colon == open + d1 + 1
        d2 == Span(s, colon + 1, Digits)
        close == colon + d2 + 1
        trail == Span(s, close + 1, Whitespace)
    IN  IF /\ ws >= 1
           /\ open <= Len(s) /\ s[open] = "("
           /\ d1 >= 1
           /\ colon <= Len(s) /\ s[colon] = ":"
           /\ d2 >= 1
           /\ close <= Len(s) /\ s[close] = ")"
           /\ close + trail = Len(s)
        THEN Some([open |-> open, close |-> close])
        ELSE None

\* '.' matches every character but the line feed.
DotPlus(s) == s # <<>> /\ \A i \in 1..Len(s) : s[i] # "\n"

\* The lengths group 1 can take in some match of the whole pattern.
NameLengths(s) ==
    {k \in 1..Len(s) : DotPlus(Prefix(s, k)) /\ HeaderTail(Suffix(s, k)) # None}

\* The length the engine settles on: '.+?' is lazy, so the engine tries the
\* lengths in increasing order and keeps the first one the rest matches at.
GreedyNameLength(s) == Max(NameLengths(s))

NameLength(s) == Min(NameLengths(s))

\* speaker_pattern.match(line): None, or Some of groups 1 and 2.
SpeakerMatch(s) ==
    IF NameLengths(s) = {} THEN None
    ELSE LET k == NameLength(s)
             rest == Suffix(s, k)
             t == HeaderTail(rest)[1]
         IN  Some([speaker |-> Prefix(s, k),
                   timestamp |-> SubSeq(rest, t.open + 1, t.close - 1)])


-----------------------------------------------------------------------------
(* str.rstrip('\n'), str.strip(), str.join                                 *)

\* Number of consecutive characters of s, from its end backwards, in C.
RECURSIVE RSpan(_, _)
RSpan(s, C) ==
    IF s = <<>> \/ s[Len(s)] \notin C THEN 0
    ELSE 1 + RSpan(SubSeq(s, 1, Len(s) - 1), C)

\* line.rstrip('\n')
RStripNewline(s) == SubSeq(s, 1, Len(s) - RSpan(s, {"\n"}))

\* s.strip() without the trailing part: only leading whitespace removed.
LStrip(s) == SubSeq(s, Span(s, 1, Whitespace) + 1, Len(s))

\* s.strip()
Strip(s) ==
    LET t == LStrip(s)
    IN  SubSeq(t, 1, Len(t) - RSpan(t, Whitespace))

\* sep.join(parts)
RECURSIVE Join(_, _)
Join(sep, parts) ==
    IF parts = <<>> THEN <<>>
    ELSE IF Len(parts) = 1 THEN parts[1]
    ELSE parts[1] \o sep \o Join(sep, Tail(parts))

-----------------------------------------------------------------------------
(* parse_transcript: the body of the for loop and the code after it        *)

\* The section dictionary with the buffered lines joined but not stripped.
SectionUnstripped(speaker, timestamp, buffered) ==
    [speaker |-> speaker, timestamp |-> timestamp,
     text |-> Join(<<"\n">>, buffered)]

\* The dictionary appended at lines 49-53 and 66-70.
Section(speaker, timestamp, buffered) ==
    [speaker |-> speaker, timestamp |-> timestamp,
     text |-> Strip(Join(<<"\n">>, buffered))]

\* The state before the loop (lines 35-38).
ParseStart ==
    [sections |-> <<>>, current_speaker |-> None, current_timestamp |-> None,
     current_text |-> <<>>]

\* The loop body with "sections = [...]" where the source appends: the list
\* is rebound to the one section just finished.
ParseLineRebind(st, ln) ==
    LET l == RStripNewline(ln)
        m == SpeakerMatch(l)
    IN  IF m # None
        THEN [sections |->
                 IF st.current_speaker # None
                 THEN <<Section(st.current_speaker[1], st.current_timestamp[1],
                                st.current_text)>>
                 ELSE st.sections,
              current_speaker |-> Some(m[1].speaker),
              current_timestamp |-> Some(m[1].timestamp),
              current_text |-> <<>>]
        ELSE IF st.current_speaker # None
        THEN [st EXCEPT !.current_text = Append(@, l)]
        ELSE st

\* One iteration of "for line in lines" (lines 40-62) on raw line ln.
ParseLine(st, ln) ==
    LET l == RStripNewline(ln)
        m == SpeakerMatch(l)
    IN  IF m # None
        THEN [sections |->
                 IF st.current_speaker # None
                 THEN Append(st.sections,
                             Section(st.current_speaker[1], st.current_timestamp[1],
                                     st.current_text))
                 ELSE st.sections,
              current_speaker |-> Some(m[1].speaker),
              current_timestamp |-> Some(m[1].timestamp),
              current_text |-> <<>>]
        ELSE IF st.current_speaker # None
        THEN [st EXCEPT !.current_text = Append(@, l)]
        ELSE st

\* The code after the loop without lines 65-70: the last section is lost.
ParseEndForgetLast(st) == st.sections

\* The code after the loop (lines 64-72): the returned list.
ParseEnd(st) ==
    IF st.current_speaker # None
    THEN Append(st.sections,
                Section(st.current_speaker[1], st.current_timestamp[1],
                        st.current_text))
    ELSE st.sections

RECURSIVE ParseLoop(_, _)
ParseLoop(st, ls) ==
    IF ls = <<>> THEN st ELSE ParseLoop(ParseLine(st, Head(ls)), Tail(ls))

\* parse_transcript on the list f.readlines() returns.
ParseTranscript(ls) == ParseEnd(ParseLoop(ParseStart, ls))

-----------------------------------------------------------------------------
(* Bounds and input alphabets                                              *)

MaxTokens == 6

MaxLines == 4

\* Pieces a candidate header line is assembled from.
Tokens ==
    { <<"a">>, <<" ">>, <<"\t">>, <<"(", "1", ":", "2", ")">>,
      <<"(", "1", ":", "2", ":", "3", ")">>, <<"(">> }

\* Lines of a transcript file, without their line terminator.
TranscriptLines ==
    { <<"a", " ", "(", "1", ":", "2", ")">>,
      <<"b", " ", "\t", "(", "3", ":", "4", ")", " ">>,
      <<>>,
      <<"x">>,
      <<" ", "y", " ">>,
      <<"(", "1", ":", "2", ")">> }

\* f.readlines(): every line keeps its "\n", the last one only when the
\* file ends in a line feed.
ReadLines(bodies, eofNewline) ==
    [i \in 1..Len(bodies) |->
        IF i < Len(bodies) \/ eofNewline THEN bodies[i] \o <<"\n">> ELSE bodies[i]]

-----------------------------------------------------------------------------
(* Idle values of the variables a specification does not use               *)

MatchIdle == line = <<>> /\ match = None

ParseIdle ==
    /\ lines = <<>> /\ pos = 0 /\ sections = <<>>
    /\ current_speaker = None /\ current_timestamp = None /\ current_text = <<>>

MappingIdle == unique_speakers = <<>> /\ speaker_mapping = <<>>

ParaIdle == text = <<>> /\ paragraphs = <<>>

CliIdle ==
    /\ prog = "" /\ argv = <<>> /\ files = <<>> /\ episodes = <<>>
    /\ exit_status = None

-----------------------------------------------------------------------------
(* SpecMatch: speaker_pattern.match on one line                            *)

InitMatch ==
    /\ pc = "match"
    /\ \E k \in 0..MaxTokens : \E ts \in [1..k -> Tokens] : line = Flatten(ts)
    /\ match = None
    /\ ParseIdle /\ MappingIdle /\ ParaIdle /\ CliIdle

\* match = speaker_pattern.match(line)   (line 44)
MatchLine ==
    /\ pc = "match"
    /\ match' = SpeakerMatch(line)
    /\ pc' = "matched"
    /\ UNCHANGED <<line, parseVars, mappingVars, paraVars, cliVars>>

NextMatch == MatchLine

SpecMatch == InitMatch /\ [][NextMatch]_vars

-----------------------------------------------------------------------------
(* SpecParse: parse_transcript, one loop iteration per step                *)

InitParse ==
    /\ pc = "loop"
    /\ \E k \in 0..MaxLines : \E bodies \in [1..k -> TranscriptLines], nl \in BOOLEAN :
          lines = ReadLines(bodies, nl)
    /\ pos = 0
    /\ sections = ParseStart.sections
    /\ current_speaker = ParseStart.current_speaker
    /\ current_timestamp = ParseStart.current_timestamp
    /\ current_text = ParseStart.current_text
    /\ MatchIdle /\ MappingIdle /\ ParaIdle /\ CliIdle

ParseState ==
    [sections |-> sections, current_speaker |-> current_speaker,
     current_timestamp |-> current_timestamp, current_text |-> current_text]

\* One iteration of the for loop (lines 40-62).
ReadLine ==
    /\ pc = "loop"
    /\ pos < Len(lines)
    /\ LET st == ParseLine(ParseState, lines[pos + 1])
       IN  /\ sections' = st.sections
           /\ current_speaker' = st.current_speaker
           /\ current_timestamp' = st.current_timestamp
           /\ current_text' = st.current_text
    /\ pos' = pos + 1
    /\ UNCHANGED <<pc, lines, matchVars, mappingVars, paraVars, cliVars>>

\* The loop is exhausted: lines 64-72.
FinishParse ==
    /\ pc = "loop"
    /\ pos = Len(lines)
    /\ sections' = ParseEnd(ParseState)
    /\ pc' = "parsed"
    /\ UNCHANGED <<lines, pos, current_speaker, current_timestamp, current_text,
                   matchVars, mappingVars, paraVars, cliVars>>

NextParse == ReadLine \/ FinishParse

SpecParse == InitParse /\ [][NextParse]_vars

-----------------------------------------------------------------------------
(* get_speaker_mapping                                                     *)

\* The number of speaker-N colour classes; the literal 8 of line 90.
NumClasses == 8

Range(s) == {s[i] : i \in 1..Len(s)}

\* Lines 84-85: one iteration of the first loop.
AddUnique(unique, speaker) ==
    IF speaker \notin Range(unique) THEN Append(unique, speaker) ELSE unique

\* Lines 88-90 with enumerate() counting from 1 instead of 0.
MappingOfOneBased(unique) ==
    [sp \in Range(unique) |->
        (Max({i \in 1..Len(unique) : unique[i] = sp}) % NumClasses) + 1]

\* Lines 88-90: the second loop; a later assignment to a key overwrites an
\* earlier one.  Python's enumerate index is the sequence index minus 1.
MappingOf(unique) ==
    [sp \in Range(unique) |->
        ((Max({i \in 1..Len(unique) : unique[i] = sp}) - 1) % NumClasses) + 1]

RECURSIVE UniqueSpeakers(_, _)
UniqueSpeakers(unique, secs) ==
    IF secs = <<>> THEN unique
    ELSE UniqueSpeakers(AddUnique(unique, Head(secs).speaker), Tail(secs))

\* get_speaker_mapping(sections)
GetSpeakerMapping(secs) == MappingOf(UniqueSpeakers(<<>>, secs))

-----------------------------------------------------------------------------
(* SpecMapping: get_speaker_mapping over a growing section list            *)

MaxSpeakers == 10

MaxRepeats == 1

\* Speaker names "a", "aa", "aaa", ...: as many distinct strings as needed.
SpeakerName(k) == [j \in 1..k |-> "a"]

\* The speakers the next section may carry: any speaker already seen (while
\* repeats are left) or one new name.  The first name is any of the
\* MaxSpeakers names and each new one follows the last cyclically, so the
\* order of first appearance is a rotation of the name order.
NextSpeakers ==
    LET seen == Range(unique_speakers)
        repeat == IF Len(sections) - Len(unique_speakers) < MaxRepeats
                  THEN seen ELSE {}
        fresh == IF Len(unique_speakers) >= MaxSpeakers THEN {}
                 ELSE IF unique_speakers = <<>>
                 THEN {SpeakerName(k) : k \in 1..MaxSpeakers}
                 ELSE {SpeakerName(
                          (Len(unique_speakers[Len(unique_speakers)]) % MaxSpeakers) + 1)}
    IN  repeat \cup fresh

InitMapping ==
    /\ pc = "scan"
    /\ sections = <<>>
    /\ unique_speakers = <<>>
    /\ speaker_mapping = <<>>
    /\ lines = <<>> /\ pos = 0
    /\ current_speaker = None /\ current_timestamp = None /\ current_text = <<>>
    /\ MatchIdle /\ ParaIdle /\ CliIdle

\* One iteration of "for section in sections" (lines 83-85); the section
\* read is recorded in sections.
ScanSection ==
    /\ pc = "scan"
    /\ \E sp \in NextSpeakers :
          /\ sections' = Append(sections, Section(sp, <<"0", ":", "0">>, <<>>))
          /\ unique_speakers' = AddUnique(unique_speakers, sp)
    /\ UNCHANGED <<pc, speaker_mapping, lines, pos, current_speaker,
                   current_timestamp, current_text, matchVars, paraVars, cliVars>>

\* The first loop is exhausted: lines 87-92.
BuildMapping ==
    /\ pc = "scan"
    /\ speaker_mapping' = MappingOf(unique_speakers)
    /\ pc' = "mapped"
    /\ UNCHANGED <<unique_speakers, parseVars, matchVars, paraVars, cliVars>>

NextMapping == ScanSection \/ BuildMapping

SpecMapping == InitMapping /\ [][NextMapping]_vars

-----------------------------------------------------------------------------
(* generate_html, lines 176-183: the paragraphs of one section             *)

\* The first position at which sep occurs in s, or 0.
FindFirst(s, sep) ==
    LET hits == {i \in 1..(Len(s) - Len(sep) + 1) :
                    SubSeq(s, i, i + Len(sep) - 1) = sep}
    IN  IF hits = {} THEN 0 ELSE Min(hits)

\* s.split(sep): cut at each occurrence of sep, leftmost first, not overlapping.
RECURSIVE SplitOn(_, _)
SplitOn(s, sep) ==
    LET i == FindFirst(s, sep)
    IN  IF i = 0 THEN <<s>>
        ELSE <<SubSeq(s, 1, i - 1)>> \o SplitOn(Suffix(s, i + Len(sep) - 1), sep)

\* p.replace('\n', ' ') left out.
KeepNewlines(p) == p

\* p.replace('\n', ' ')   (line 182)
ReplaceNewlines(p) == [i \in 1..Len(p) |-> IF p[i] = "\n" THEN " " ELSE p[i]]

NonEmpty(p) == p # <<>>

\* [p for p in text.split('\n\n') if p.strip()]: the chunks kept, not stripped.
UnstrippedChunks(t) ==
    SelectSeq(SplitOn(t, <<"\n", "\n">>), LAMBDA p : NonEmpty(Strip(p)))

\* [p.strip() for p in text.split('\n\n') if p.strip()]   (line 177)
StrippedChunks(t) ==
    LET kept == SelectSeq(SplitOn(t, <<"\n", "\n">>), LAMBDA p : NonEmpty(Strip(p)))
    IN  [i \in 1..Len(kept) |-> Strip(kept[i])]

\* The bodies of the <p> elements appended for one section (lines 177-183).
Paragraphs(t) ==
    LET chunks == StrippedChunks(t)
    IN  [i \in 1..Len(chunks) |-> ReplaceNewlines(chunks[i])]

-----------------------------------------------------------------------------
(* SpecParagraphs: the paragraph split of one section text                 *)

MaxTextLen == 6

TextChars == {"a", "b", " ", "\n"}

InitParagraphs ==
    /\ pc = "render"
    \* parse_transcript strips every text it stores.
    /\ \E k \in 0..MaxTextLen : \E t \in [1..k -> TextChars] :
          Strip(t) = t /\ text = t
    /\ paragraphs = <<>>
    /\ MatchIdle /\ ParseIdle /\ MappingIdle /\ CliIdle

\* Lines 177-183 for one section.
SplitParagraphs ==
    /\ pc = "render"
    /\ paragraphs' = Paragraphs(text)
    /\ pc' = "rendered"
    /\ UNCHANGED <<text, matchVars, parseVars, mappingVars, cliVars>>

NextParagraphs == SplitParagraphs

SpecParagraphs == InitParagraphs /\ [][NextParagraphs]_vars

-----------------------------------------------------------------------------
(* extract_episode_number                                                  *)

UpperLetters ==
    <<"A", "B", "C", "D", "E", "F", "G", "H", "I", "J", "K", "L", "M",
      "N", "O", "P", "Q", "R", "S", "T", "U", "V", "W", "X", "Y", "Z">>

LowerLetters ==
    <<"a", "b", "c", "d", "e", "f", "g", "h", "i", "j", "k", "l", "m",
      "n", "o", "p", "q", "r", "s", "t", "u", "v", "w", "x", "y", "z">>

\* re.IGNORECASE compares letters without regard to case.
LowerChar(c) ==
    IF \E i \in 1..Len(UpperLetters) : UpperLetters[i] = c
    THEN LowerLetters[CHOOSE i \in 1..Len(UpperLetters) : UpperLetters[i] = c]
    ELSE c

LowerCase(s) == [i \in 1..Len(s) |-> LowerChar(s[i])]

\* os.path.basename(filename): what follows the last "/".
Basename(path) ==
    LET slashes == {i \in 1..Len(path) : path[i] = "/"}
    IN  IF slashes = {} THEN path ELSE Suffix(path, Max(slashes))

DigitValue(c) == CHOOSE v \in 0..9 : <<"0", "1", "2", "3", "4", "5", "6", "7", "8", "9">>[v + 1] = c

\* int(digits)
RECURSIVE IntOf(_)
IntOf(ds) ==
    IF ds = <<>> THEN 0
    ELSE 10 * IntOf(SubSeq(ds, 1, Len(ds) - 1)) + DigitValue(ds[Len(ds)])

\* re.search(literal + r'(\d+)', name, re.IGNORECASE): None, or Some of
\* int(group 1) of the leftmost match; \d+ takes the whole digit run.
SearchNumberAfter(name, literal) ==
    LET low == LowerCase(name)
        n == Len(literal)
        hits == {i \in 1..Len(name) :
                    /\ i + n <= Len(name)
                    /\ SubSeq(low, i, i + n - 1) = literal
                    /\ IsDigit(name[i + n])}
    IN  IF hits = {} THEN None
        ELSE LET i == Min(hits)
             IN  Some(IntOf(SubSeq(name, i + n, i + n - 1 + Span(name, i + n, Digits))))

\* The patterns of lines 110-114, in order.
EpisodePatterns ==
    << <<"e", "p">>,
       <<"e", "p", "i", "s", "o", "d", "e">>,
       <<"e", "p", "i", "s", "o", "d", "e", "_">> >>

\* extract_episode_number(filename): the first pattern that matches decides.
ExtractEpisodeNumber(filename) ==
    LET base == Basename(filename)
        found == {j \in 1..Len(EpisodePatterns) :
                     SearchNumberAfter(base, EpisodePatterns[j]) # None}
    IN  IF found = {} THEN None
        ELSE SearchNumberAfter(base, EpisodePatterns[Min(found)])

-----------------------------------------------------------------------------
(* generate_html and format_transcript.main                                *)

\* Python's "a or b" on int-or-None operands: a when a is truthy, else b.
PyOr(a, b) == IF a # None /\ a[1] # 0 THEN a ELSE b

\* Line 229.
EpisodeNumFor(output_file, input_file) ==
    PyOr(ExtractEpisodeNumber(output_file), ExtractEpisodeNumber(input_file))

\* The document generate_html writes: title None stands for "Transcript",
\* Some(n) for "Episode n Transcript" (lines 132-135); body holds, per
\* section, the header fields, the speaker-N class and the <p> bodies.
GenerateHtml(secs, mapping, episode_num) ==
    [kind |-> "transcript_html",
     title |-> episode_num,
     body |-> [i \in 1..Len(secs) |->
                 [speaker |-> secs[i].speaker,
                  timestamp |-> secs[i].timestamp,
                  class |-> mapping[secs[i].speaker],
                  paragraphs |-> Paragraphs(secs[i].text)]]]

\* open(path, 'w').write(content): the file is created or replaced.
WriteFile(fs, path, content) ==
    [q \in DOMAIN fs \cup {path} |-> IF q = path THEN content ELSE fs[q]]

\* os.path.exists / Path.exists
Exists(fs, path) == path \in DOMAIN fs

\* len(sys.argv) the converter insists on (line 202), script name included.
ExpectedArgc == 3

\* The script runs main() and drops what it returns: status 0.
ExitStatusIgnored(returned) == 0

\* sys.exit(n) / exit(main()): the value becomes the process's exit status.
ExitStatus(returned) == returned

-----------------------------------------------------------------------------
(* episode_index: sorting and the table rows                               *)

\* Insert e behind every element whose key is smaller or equal (ascending).
RECURSIVE InsertAscending(_, _)
InsertAscending(sorted, e) ==
    IF sorted = <<>> THEN <<e>>
    ELSE IF Head(sorted).episode_number > e.episode_number
    THEN <<e>> \o sorted
    ELSE <<Head(sorted)>> \o InsertAscending(Tail(sorted), e)

RECURSIVE SortAscending(_)
SortAscending(eps) ==
    IF eps = <<>> THEN <<>>
    ELSE InsertAscending(SortAscending(SubSeq(eps, 1, Len(eps) - 1)), eps[Len(eps)])

\* Insert e behind every element whose key is greater or equal: equal keys
\* keep their input order (list.sort is stable, also with reverse=True).
RECURSIVE InsertDescending(_, _)
InsertDescending(sorted, e) ==
    IF sorted = <<>> THEN <<e>>
    ELSE IF Head(sorted).episode_number < e.episode_number
    THEN <<e>> \o sorted
    ELSE <<Head(sorted)>> \o InsertDescending(Tail(sorted), e)

\* episodes.sort(key=lambda ep: ep['episode_number'], reverse=True)  (line 251)
RECURSIVE SortDescending(_)
SortDescending(eps) ==
    IF eps = <<>> THEN <<>>
    ELSE InsertDescending(SortDescending(SubSeq(eps, 1, Len(eps) - 1)), eps[Len(eps)])

\* generate_episode_table: one <tr> per episode, in list order
\* (lines 126-148); the link is prefix + "transcript_ep<n>.html".
EpisodeTable(eps, transcript_prefix) ==
    [i \in 1..Len(eps) |->
        [ep_num |-> eps[i].episode_number,
         title |-> eps[i].title,
         transcript_prefix |-> transcript_prefix]]

\* generate_episodes_index   (lines 166-188)
EpisodesIndexPage(eps) ==
    [kind |-> "episodes_index", rows |-> EpisodeTable(eps, <<>>)]

\* generate_home_page   (lines 191-234)
HomePage(eps) ==
    [kind |-> "home",
     rows |-> EpisodeTable(eps, <<"e", "p", "i", "s", "o", "d", "e", "s", "/">>)]

CatalogPath ==
    <<"e", "p", "i", "s", "o", "d", "e", "s", "/",
      "e", "p", "i", "s", "o", "d", "e", "s", ".", "j", "s", "o", "n">>

EpisodesIndexPath ==
    <<"e", "p", "i", "s", "o", "d", "e", "s", "/",
      "i", "n", "d", "e", "x", ".", "h", "t", "m", "l">>

HomePath == <<"i", "n", "d", "e", "x", ".", "h", "t", "m", "l">>

-----------------------------------------------------------------------------
(* SpecCli: one run of format_transcript.py or of episode_index.py         *)

MaxArgs == 3

MaxEpisodes == 4

MaxEpisodeNumber == 3

\* File names the converter may be given.
Paths ==
    { <<"e", "p", "0", ".", "h", "t", "m", "l">>,
      <<"e", "p", "7", ".", "h", "t", "m", "l">>,
      <<"E", "p", "i", "s", "o", "d", "e", "5", ".", "t", "x", "t">>,
      <<"e", "p", "i", "s", "o", "d", "e", "_", "1", "2", ".", "t", "x", "t">>,
      <<"e", "p", "9", "/", "t", ".", "t", "x", "t">>,
      <<"t", ".", "t", "x", "t">> }

\* What f.readlines() returns for the transcript files that exist.
Transcripts ==
    { << <<"a", " ", "(", "1", ":", "2", ")", "\n">>,
         <<"x", "\n">>, <<"\n">>, <<"y", "\n">>,
         <<"b", " ", "(", "3", ":", "4", ")", "\n">>,
         <<"a", " ", "(", "5", ":", "6", ")">> >>,
      << <<"x", "\n">> >> }

EpisodeRecords ==
    [episode_number : 1..MaxEpisodeNumber, title : {<<"t">>, <<"u">>}]

\* A page left by an earlier run.
StalePage == [kind |-> "stale"]

InitConverter ==
    /\ prog = "format_transcript"
    /\ \E k \in 0..MaxArgs : argv \in [1..k -> Paths]
    /\ \E present \in SUBSET Paths, content \in Transcripts :
          files = [q \in present |-> content]
    /\ episodes = <<>>

InitIndex ==
    /\ prog = "episode_index"
    /\ argv = <<>>
    /\ \E stale \in SUBSET {EpisodesIndexPath, HomePath} :
          \/ files = [q \in stale |-> StalePage]
          \/ \E k \in 0..MaxEpisodes : \E catalog \in [1..k -> EpisodeRecords] :
                files = [q \in stale \cup {CatalogPath} |->
                            IF q = CatalogPath THEN catalog ELSE StalePage]
    /\ episodes = <<>>

InitCli ==
    /\ pc = "main"
    /\ InitConverter \/ InitIndex
    /\ exit_status = None
    /\ MatchIdle /\ ParseIdle /\ MappingIdle /\ ParaIdle

\* format_transcript.main, lines 202-206: wrong argument count.
ConvertUsage ==
    /\ pc = "main" /\ prog = "format_transcript"
    /\ Len(argv) + 1 # ExpectedArgc
    /\ exit_status' = Some(ExitStatus(1))
    /\ pc' = "exit"
    /\ UNCHANGED <<argv, files, episodes, prog, matchVars, parseVars, mappingVars, paraVars>>

\* format_transcript.main, lines 208-214: the input file does not exist.
ConvertMissingInput ==
    /\ pc = "main" /\ prog = "format_transcript"
    /\ Len(argv) + 1 = ExpectedArgc
    /\ ~Exists(files, argv[1])
    /\ exit_status' = Some(ExitStatus(1))
    /\ pc' = "exit"
    /\ UNCHANGED <<argv, files, episodes, prog, matchVars, parseVars, mappingVars, paraVars>>

\* format_transcript.main, lines 216-236: parse, map, number, write.
ConvertRun ==
    /\ pc = "main" /\ prog = "format_transcript"
    /\ Len(argv) + 1 = ExpectedArgc
    /\ Exists(files, argv[1])
    /\ LET input_file == argv[1]
           output_file == argv[2]
           secs == ParseTranscript(files[input_file])
           mapping == GetSpeakerMapping(secs)
           episode_num == EpisodeNumFor(output_file, input_file)
       IN  /\ sections' = secs
           /\ speaker_mapping' = mapping
           /\ files' = WriteFile(files, output_file,
                                 GenerateHtml(secs, mapping, episode_num))
    /\ exit_status' = Some(ExitStatus(0))
    /\ pc' = "exit"
    /\ UNCHANGED <<argv, episodes, prog, matchVars, lines, pos, current_speaker,
                   current_timestamp, current_text, unique_speakers, paraVars>>

\* episode_index.main, lines 240-246: the catalog is absent.
IndexMissingCatalog ==
    /\ pc = "main" /\ prog = "episode_index"
    /\ ~Exists(files, CatalogPath)
    /\ exit_status' = Some(ExitStatus(1))
    /\ pc' = "exit"
    /\ UNCHANGED <<argv, files, episodes, prog, matchVars, parseVars, mappingVars, paraVars>>

\* episode_index.main, lines 248-267: load, sort, write both pages.
IndexGenerate ==
    /\ pc = "main" /\ prog = "episode_index"
    /\ Exists(files, CatalogPath)
    /\ LET sorted == SortDescending(files[CatalogPath])
       IN  /\ episodes' = sorted
           /\ files' = WriteFile(WriteFile(files, EpisodesIndexPath,
                                           EpisodesIndexPage(sorted)),
                                 HomePath, HomePage(sorted))
    /\ exit_status' = Some(ExitStatus(0))
    /\ pc' = "exit"
    /\ UNCHANGED <<argv, prog, matchVars, parseVars, mappingVars, paraVars>>

NextCli ==
    \/ ConvertUsage
    \/ ConvertMissingInput
    \/ ConvertRun
    \/ IndexMissingCatalog
    \/ IndexGenerate

SpecCli == InitCli /\ [][NextCli]_vars

-----------------------------------------------------------------------------
(* All runs together                                                       *)

Init == InitMatch \/ InitParse \/ InitMapping \/ InitParagraphs \/ InitCli

Next == NextMatch \/ NextParse \/ NextMapping \/ NextParagraphs \/ NextCli

Spec == Init /\ [][Next]_vars

-----------------------------------------------------------------------------
(* Properties of parse_transcript (SpecParse)                              *)

\* The input line sequence: the lines as the loop sees them.
InputLines == [i \in 1..Len(lines) |-> RStripNewline(lines[i])]

IsHeader(l) == SpeakerMatch(l) # None

HeaderIndexes == {i \in 1..Len(lines) : IsHeader(InputLines[i])}

\* The position of the k-th header line.
KthHeader(k) ==
    CHOOSE i \in HeaderIndexes : Cardinality({j \in HeaderIndexes : j <= i}) = k

\* The position of the header after the k-th one, or one past the last line.
BlockEnd(k) ==
    IF k < Cardinality(HeaderIndexes) THEN KthHeader(k + 1) ELSE Len(lines) + 1

\* C1: the (speaker, timestamp) pairs of the sections parse_transcript
\* returns are, in order, the (name, timestamp) pairs of the lines the header
\* pattern matches; so there are as many sections as header lines, and none
\* when no line is a header.
C1_SectionsAreHeaders ==
    pc = "parsed" =>
        LET hs == SelectSeq(InputLines, IsHeader)
        IN  /\ Len(sections) = Len(hs)
            /\ \A k \in 1..Len(hs) :
                  /\ sections[k].speaker = SpeakerMatch(hs[k])[1].speaker
                  /\ sections[k].timestamp = SpeakerMatch(hs[k])[1].timestamp

\* A finished parse of an input that starts with discarded text, holds two
\* headers or more and some body lines.
C1_Witness ==
    /\ pc = "parsed"
    /\ Len(sections) >= 2
    /\ lines # <<>> /\ ~IsHeader(InputLines[1])
    /\ Len(lines) > Len(sections) + 1

\* C2: each returned section's text is the "\n"-join of the non-header lines
\* strictly between its header and the next header (or the end of input),
\* stripped of leading and trailing whitespace and otherwise unchanged; lines
\* before the first header are in no section.
C2_SectionText ==
    pc = "parsed" =>
        /\ Len(sections) = Cardinality(HeaderIndexes)
        /\ \A k \in 1..Len(sections) :
              sections[k].text =
                  Strip(Join(<<"\n">>,
                             SubSeq(InputLines, KthHeader(k) + 1, BlockEnd(k) - 1)))

\* A finished parse with an empty section (header followed by header) and a
\* section whose block lost whitespace at its ends and kept an inner line
\* break.
C2_Witness ==
    /\ pc = "parsed"
    /\ \E k \in 1..Len(sections) : sections[k].text = <<>>
    /\ \E k \in 1..Len(sections) :
          LET block == Join(<<"\n">>,
                            SubSeq(InputLines, KthHeader(k) + 1, BlockEnd(k) - 1))
          IN  /\ sections[k].text # block
              /\ \E i \in 1..Len(sections[k].text) : sections[k].text[i] = "\n"

\* C9: while the lines are scanned the section list only grows at its end:
\* every step leaves the old list a prefix of the new one, adds exactly one
\* section when a header is read with a section active or when the input
\* ends with a section active, and adds none otherwise.
C9_AppendOnly ==
    [][ /\ IsPrefixOf(sections, sections')
        /\ Len(sections') - Len(sections) =
              IF /\ pc = "loop" /\ current_speaker # None
                 /\ \/ pos = Len(lines)
                    \/ pos < Len(lines) /\ IsHeader(InputLines[pos + 1])
              THEN 1 ELSE 0 ]_vars

\* Mid-scan: a section has been emitted and body lines of the next one are
\* buffered.
C9_Witness ==
    /\ pc = "loop"
    /\ Len(sections) >= 1
    /\ current_text # <<>>
    /\ pos < Len(lines)

-----------------------------------------------------------------------------
(* Properties of the header pattern (SpecMatch)                            *)

AllIn(s, from, to, C) == \A i \in from..to : s[i] \in C

\* s is one-or-more whitespace, "(", digits, ":", digits, ")", optional
\* whitespace; stated by the positions of the three punctuation marks.
TailShape(s) ==
    \E o \in 2..Len(s) :
        /\ s[o] = "(" /\ AllIn(s, 1, o - 1, Whitespace)
        /\ \E c \in (o + 4)..Len(s) :
              /\ s[c] = ")" /\ AllIn(s, c + 1, Len(s), Whitespace)
              /\ \E m \in (o + 2)..(c - 2) :
                    /\ s[m] = ":"
                    /\ AllIn(s, o + 1, m - 1, Digits)
                    /\ AllIn(s, m + 1, c - 1, Digits)

\* The prefix lengths that leave a remainder of that shape.
ShapeLengths(s) == {k \in 1..Len(s) : TailShape(Suffix(s, k))}

LastIndexOf(s, ch) == Max({i \in 1..Len(s) : s[i] = ch})

-----------------------------------------------------------------------------
(* Properties of get_speaker_mapping (SpecMapping)                         *)

SpeakersOf(secs) == {secs[i].speaker : i \in 1..Len(secs)}

\* The position of the first section that carries speaker sp.
FirstSection(secs, sp) == Min({i \in 1..Len(secs) : secs[i].speaker = sp})

\* The 0-based rank of sp among the distinct speakers, by first appearance:
\* the number of distinct speakers met before sp's first section.
AppearanceRank(secs, sp) ==
    Cardinality(SpeakersOf(SubSeq(secs, 1, FirstSection(secs, sp) - 1)))

-----------------------------------------------------------------------------
(* Properties of the paragraph split (SpecParagraphs)                      *)

\* The text cut at every maximal run of two or more line feeds.
RECURSIVE SplitOnBlankRuns(_)
SplitOnBlankRuns(t) ==
    LET starts == {i \in 1..Len(t) : Span(t, i, {"\n"}) >= 2}
    IN  IF starts = {} THEN <<t>>
        ELSE LET i == Min(starts)
             IN  <<SubSeq(t, 1, i - 1)>>
                    \o SplitOnBlankRuns(Suffix(t, i - 1 + Span(t, i, {"\n"})))

\* The specified splitter: cut at blank-line runs, strip each chunk, drop the
\* empty ones, turn each remaining line feed into one space.
SpecifiedParagraphs(t) ==
    LET chunks == SplitOnBlankRuns(t)
        stripped == [i \in 1..Len(chunks) |-> Strip(chunks[i])]
        kept == SelectSeq(stripped, NonEmpty)
    IN  [i \in 1..Len(kept) |->
            [j \in 1..Len(kept[i]) |-> IF kept[i][j] = "\n" THEN " " ELSE kept[i][j]]]

\* C5: the paragraphs generate_html emits for a section text are the ordered
\* sequence the specified splitter produces for it.
C5_SplitRefinesSpecified ==
    pc = "rendered" => paragraphs = SpecifiedParagraphs(text)

\* A text with a run of three line feeds or more (where cutting at "\n\n"
\* and cutting at the whole run leave different chunks) that yields two
\* paragraphs or more.
C5_Witness ==
    /\ pc = "rendered"
    /\ \E i \in 1..Len(text) : Span(text, i, {"\n"}) >= 3
    /\ Len(paragraphs) >= 2

\* C6: every emitted paragraph is non-empty, holds no line feed, has no
\* whitespace at its ends, and is split into exactly itself.
C6_SplitIdempotent ==
    pc = "rendered" =>
        \A k \in 1..Len(paragraphs) :
            LET p == paragraphs[k]
            IN  /\ p # <<>>
                /\ \A i \in 1..Len(p) : p[i] # "\n"
                /\ Strip(p) = p
                /\ Paragraphs(p) = <<p>>

\* Two paragraphs or more, one of them made of several lines joined by
\* spaces.
C6_Witness ==
    /\ pc = "rendered"
    /\ Len(paragraphs) >= 2
    /\ \E i \in 2..(Len(text) - 1) :
          text[i] = "\n" /\ text[i - 1] # "\n" /\ text[i + 1] # "\n"

-----------------------------------------------------------------------------
(* Properties of the two command-line programs (SpecCli)                   *)

MissingInput ==
    \/ prog = "format_transcript" /\ Len(argv) = 2 /\ argv[1] \notin DOMAIN files
    \/ prog = "episode_index" /\ CatalogPath \notin DOMAIN files

\* C7: a run whose input is missing (the converter given two arguments and
\* no such input file, the index generator without its catalog) ends with a
\* non-zero exit status and leaves every file as it was.
C7_MissingInputFatal ==
    [][ (pc = "main" /\ MissingInput) =>
            /\ pc' = "exit"
            /\ exit_status' # None /\ exit_status'[1] # 0
            /\ files' = files ]_vars

\* The converter has exited on a missing input while the output path named
\* an existing file.
C7_Witness ==
    /\ pc = "exit" /\ prog = "format_transcript"
    /\ Len(argv) = 2
    /\ argv[1] \notin DOMAIN files
    /\ argv[2] \in DOMAIN files
    /\ exit_status = Some(1)

Count(seq, P(_)) == Cardinality({i \in 1..Len(seq) : P(seq[i])})

NonIncreasing(rows) ==
    \A i \in 1..(Len(rows) - 1) : rows[i].ep_num >= rows[i + 1].ep_num

\* The rows render each record of the catalog once: same length, and every
\* (number, title) occurs as often among the rows as in the catalog.
OneRowPerRecord(rows, catalog) ==
    /\ Len(rows) = Len(catalog)
    /\ \A r \in Range(catalog) :
          Count(rows, LAMBDA w : w.ep_num = r.episode_number /\ w.title = r.title)
              = Count(catalog, LAMBDA e : e = r)

\* C8: both generated pages hold exactly one table row per record of the
\* catalog, in non-increasing episode_number order.
C8_RowsSortedComplete ==
    (pc = "exit" /\ prog = "episode_index" /\ exit_status = Some(0)) =>
        \A page \in {EpisodesIndexPath, HomePath} :
            /\ page \in DOMAIN files
            /\ OneRowPerRecord(files[page].rows, files[CatalogPath])
            /\ NonIncreasing(files[page].rows)

\* Pages generated from a catalog of three records or more that is not in
\* descending order and repeats an episode number.
C8_Witness ==
    /\ pc = "exit" /\ prog = "episode_index" /\ exit_status = Some(0)
    /\ LET catalog == files[CatalogPath]
       IN  /\ Len(catalog) >= 3
           /\ \E i \in 1..(Len(catalog) - 1) :
                 catalog[i].episode_number < catalog[i + 1].episode_number
           /\ \E i, j \in 1..Len(catalog) :
                 i # j /\ catalog[i].episode_number = catalog[j].episode_number

\* C10: the number in the written page's title is the one inferred from the
\* output file name whenever one is inferred there (0 included), otherwise
\* the one inferred from the input file name, and absent only when neither
\* name yields one.
C10_OutputNumberFirst ==
    (pc = "exit" /\ prog = "format_transcript" /\ exit_status = Some(0)) =>
        files[argv[2]].title =
            IF ExtractEpisodeNumber(argv[2]) # None
            THEN ExtractEpisodeNumber(argv[2])
            ELSE ExtractEpisodeNumber(argv[1])

=============================================================================
